---- MODULE Spec2Model ----
(***************************************************************************)
(* Model of sb_bake_world_transform.py: the RotationFilter class (Euler    *)
(* filter) and the per-node loop of bake_world_transform.                  *)
(*                                                                         *)
(* Angles are exact integers.  A value in degrees is the integer number of *)
(* degrees; a value in radians is held in units of pi/360, so that         *)
(* math.pi is the integer PI = 360 and math.radians / math.degrees are the *)
(* scalings by PI/180 and 180/PI.  Python lists are sequences; list index  *)
(* n is sequence index n + 1, and the axis indices 0, 1, 2 of the source   *)
(* are 1, 2, 3 here.                                                       *)
(*                                                                         *)
(* The angles of the source are floats that carry rounding errors, so a    *)
(* float comparison of two quantities that are equal in exact arithmetic   *)
(* can come out either way.  The two comparisons of the source are         *)
(* therefore nondeterministic at exact equality: the loop test of          *)
(* euler_filter_1d when current is exactly half a turn from previous, and  *)
(* the distance test of euler_filter_3d when both candidates are equally   *)
(* far from previous.  While both sides of previous are below 64 radians   *)
(* the loop test passes at most once at a half turn in a call; doubles     *)
(* from 64 radians up are 2^-46 apart, the 2*math.pi step is rounded more, *)
(* and the test can pass at a half turn on both sides of previous, any     *)
(* number of times.                                                        *)
(* A function whose result depends on them is the set of the values it can *)
(* return.                                                                 *)
(*                                                                         *)
(* Floats also have a finite precision.  Doubles of magnitude 1e17 are 16  *)
(* apart, more than twice 2*math.pi, so that adding or subtracting         *)
(* 2*math.pi to such a double gives the same double back.  The argument    *)
(* current of euler_filter_1d is therefore either an exact angle or a      *)
(* double that large, of which only the sign is kept.                      *)
(***************************************************************************)
EXTENDS Integers, Sequences, FiniteSets, TLC

VARIABLES
    values,         \* RotationFilter.values: list of xyz triples, degrees
    order,          \* RotationFilter.order: lower-cased rotation order
    vals,           \* filter(): the part of `vals` the for loop has not visited
    prev,           \* filter(): local prev (None or a triple in radians)
    fixed,          \* filter(): local fixed (list of triples, degrees)
    frames,         \* bake_world_transform: list of frame numbers
    knob,           \* the rotate knob of the duplicate, as set_knob leaves it
    previous,       \* euler_filter_3d argument (triple, radians)
    current,        \* euler_filter_3d / flip_euler argument (triple, radians)
    euler,          \* value flip_euler has been applied to `flips` times
    flips,          \* number of flip_euler applications so far
    result,         \* value returned by euler_filter_3d (None before the call)
    angle_prev,     \* euler_filter_1d argument previous (radians)
    angle_cur,      \* euler_filter_1d local current (a float, see exact, huge)
    angle_in,       \* euler_filter_1d argument current as passed in (a float)
    angle_tied,     \* euler_filter_1d: the loop test has passed at a half turn
    selected,       \* nuke.selectedNodes(): list of nodes
    rot_order_arg,  \* bake_world_transform argument rot_order as passed in
    rot_order,      \* bake_world_transform local rot_order
    node_idx,       \* number of nodes the for loop has visited
    bake_args,      \* bake_world_transform arguments filter_rotations, use_matrix
    baked,          \* per 3d node: the rotation orders used to bake it
    pc              \* position of the running function

filterVars == <<values, order, vals, prev, fixed, frames, knob>>
pureVars   == <<previous, current, euler, flips, result>>
unwindVars == <<angle_prev, angle_cur, angle_in, angle_tied>>
bakeVars   == <<selected, rot_order_arg, rot_order, node_idx, bake_args, baked>>
vars       == <<values, order, vals, prev, fixed, frames, knob,
                previous, current, euler, flips, result,
                angle_prev, angle_cur, angle_in, angle_tied,
                selected, rot_order_arg, rot_order, node_idx, bake_args, baked, pc>>

(***************************************************************************)
(* Bounds of the model.                                                    *)
(***************************************************************************)
MaxLen == 4        \* longest input list of filter()
FlipLen == 3       \* longest list in which a synthetic flip is injected
MaxTurns == 1      \* full turns added per axis to an injected flip
MaxGrid == 2       \* euler_filter_3d current: axis in -MaxGrid*pi .. MaxGrid*pi
MaxPrevGrid == 1   \* euler_filter_3d previous: axis in 0 .. MaxPrevGrid*pi
MaxAngle == 8      \* euler_filter_1d exact arguments: -MaxAngle*pi/2 .. MaxAngle*pi/2
MaxFlips == 2      \* most successive applications of flip_euler
MaxNodes == 2      \* most nodes selected

(***************************************************************************)
(* Constants of the library and of the host.                               *)
(***************************************************************************)
PI == 360
None == <<>>

\* The values of a node's rot_order knob.
rot_orders == {"XYZ", "XZY", "YXZ", "YZX", "ZXY", "ZYX"}

\* The characters of a rotation order string.
chars ==
       ("XYZ" :> <<"X","Y","Z">>) @@ ("XZY" :> <<"X","Z","Y">>)
    @@ ("YXZ" :> <<"Y","X","Z">>) @@ ("YZX" :> <<"Y","Z","X">>)
    @@ ("ZXY" :> <<"Z","X","Y">>) @@ ("ZYX" :> <<"Z","Y","X">>)

\* Rotation triples (degrees) that the decomposition hands to the filter.
Frames ==
    { <<0, 0, 170>>, <<0, 0, -170>>, <<180, 180, -10>>,
      <<0, 0, 0>>, <<-180, 0, 180>> }

Abs(x) == IF x < 0 THEN -x ELSE x

radians(x) == (x * PI) \div 180
degrees(x) == (x * 180) \div PI

radians3(t) == [a \in 1..3 |-> radians(t[a])]
degrees3(t) == [a \in 1..3 |-> degrees(t[a])]

lower(s) ==
    [i \in 1..Len(s) |->
        CASE s[i] = "X" -> "x" [] s[i] = "Y" -> "y" [] s[i] = "Z" -> "z"
          [] OTHER -> s[i]]

axis_map == ("x" :> 1) @@ ("y" :> 2) @@ ("z" :> 3)

split_axis_order(ord) == [i \in 1..Len(ord) |-> axis_map[ord[i]]]

\* flip_euler without the sign change of the middle axis.
flip_euler_no_negate(ord, e) == [a \in 1..3 |-> e[a] + PI]

flip_euler(ord, e) ==
    LET axes == split_axis_order(ord)
        f1 == [e  EXCEPT ![axes[1]] = @ + PI]
        f2 == [f1 EXCEPT ![axes[2]] = @ * (-1)]
        f3 == [f2 EXCEPT ![axes[2]] = @ + PI]
        f4 == [f3 EXCEPT ![axes[3]] = @ + PI]
    IN  f4

\* A loop test that stops too late.
unwind_more_loose(p, c, tied) == {Abs(p - c) > 2 * PI}

\* 64 radians in units of pi/360, rounded down.
Coarse == 7333

\* Whether a side of previous p half a turn away is at 64 radians or beyond.
coarse(p) == Abs(p) + PI > Coarse

\* The values the loop test of euler_filter_1d can have on exact angles; tied
\* says that the test has already passed at an exact half turn in this call.
unwind_more(p, c, tied) ==
    IF Abs(p - c) = PI /\ (~ tied \/ coarse(p))
    THEN BOOLEAN
    ELSE {Abs(p - c) > PI}

\* A loop body that steps by half a turn.
unwind_step_half(p, c) == IF p < c THEN c - PI ELSE c + PI

\* The loop body of euler_filter_1d on exact angles.
unwind_step(p, c) == IF p < c THEN c - 2 * PI ELSE c + 2 * PI

\* The while loop of euler_filter_1d from current value c, on exact angles:
\* the values it can end with.  At a half turn where the test can pass any
\* number of times it ends on either side of previous, if it ends.
RECURSIVE unwind_loop(_, _, _)
unwind_loop(p, c, tied) ==
    IF Abs(p - c) = PI /\ coarse(p)
    THEN {c, unwind_step(p, c)}
    ELSE UNION { IF t
                 THEN unwind_loop(p, unwind_step(p, c),
                                  tied \/ Abs(p - c) = PI)
                 ELSE {c}
                 : t \in unwind_more(p, c, tied) }

euler_filter_1d(p, c) == unwind_loop(p, c, FALSE)

\* The float current of euler_filter_1d: an exact angle in units of pi/360,
\* or a double of magnitude 1e17 or more with sign s, which absorbs 2*math.pi.
exact(n) == [absorbs |-> FALSE, rad |-> n]
huge(s) == [absorbs |-> TRUE, sign |-> s]

\* The loop test of euler_filter_1d on a float current c and an exact previous
\* p: a double of magnitude 1e17 is more than half a turn from p.
float_more(p, c, tied) ==
    IF c.absorbs THEN {TRUE} ELSE unwind_more(p, c.rad, tied)

\* The loop body of euler_filter_1d on a float current c: current -= 2*math.pi
\* and current += 2*math.pi leave a double of magnitude 1e17 as it is.
float_step(p, c) ==
    IF c.absorbs THEN c ELSE exact(unwind_step(p, c.rad))

\* Whether this pass of the loop test is one at an exact half turn.
float_tied(p, c) == ~ c.absorbs /\ Abs(p - c.rad) = PI

distance_squared(vec1, vec2) ==
      (vec1[1] - vec2[1]) * (vec1[1] - vec2[1])
    + (vec1[2] - vec2[2]) * (vec1[2] - vec2[2])
    + (vec1[3] - vec2[3]) * (vec1[3] - vec2[3])

\* The "for axis in range(3)" pass of euler_filter_1d over a triple.
unwind_3d(p, c) ==
    { <<x, y, z>> : x \in euler_filter_1d(p[1], c[1]),
                    y \in euler_filter_1d(p[2], c[2]),
                    z \in euler_filter_1d(p[3], c[3]) }

\* A distance test that prefers the farther triple.
farther_far(filtered, flipped, p) ==
    {distance_squared(filtered, p) < distance_squared(flipped, p)}

\* The values the test of l.131 can have.
farther(filtered, flipped, p) ==
    IF distance_squared(filtered, p) = distance_squared(flipped, p)
    THEN BOOLEAN
    ELSE {distance_squared(filtered, p) > distance_squared(flipped, p)}

\* euler_filter_3d that never tries the flipped triple.
euler_filter_3d_no_flip(ord, p, c) == unwind_3d(p, c)

euler_filter_3d(ord, p, c) ==
    UNION { UNION { { IF t THEN flipped ELSE filtered
                      : t \in farther(filtered, flipped, p) }
                    : flipped \in unwind_3d(p, flip_euler(ord, filtered)) }
            : filtered \in unwind_3d(p, c) }

(***************************************************************************)
(* RotationFilter.filter(), split at its loop.                             *)
(***************************************************************************)
\* filter_vals that never skips the first frame.
filter_vals_all(vs) == vs

filter_vals(vs) == IF Len(vs) > 2 THEN Tail(vs) ELSE vs

\* loop_body that keeps the raw current as the next prev.
loop_body_raw_prev(ord, st, i) ==
    LET curr == radians3(i)
    IN  IF st.prev = None
        THEN {[prev |-> curr, fixed |-> Append(st.fixed, i)]}
        ELSE { [prev |-> curr,
                fixed |-> Append(st.fixed, degrees3(fix_radians))]
               : fix_radians \in euler_filter_3d(ord, st.prev, curr) }

\* One iteration of the for loop on element i; st is [prev, fixed].
loop_body(ord, st, i) ==
    LET curr == radians3(i)
    IN  IF st.prev = None
        THEN {[prev |-> curr, fixed |-> Append(st.fixed, i)]}
        ELSE { [prev |-> fix_radians,
                fixed |-> Append(st.fixed, degrees3(fix_radians))]
               : fix_radians \in euler_filter_3d(ord, st.prev, curr) }

RECURSIVE for_loop(_, _, _)
for_loop(ord, st, vs) ==
    IF vs = <<>> THEN {st}
    ELSE UNION { for_loop(ord, st2, Tail(vs))
                 : st2 \in loop_body(ord, st, Head(vs)) }

\* fix_first that computes the first frame and does not insert it.
fix_first_no_insert(ord, vs, fx) == {fx}

fix_first(ord, vs, fx) ==
    IF Len(vs) > 2
    THEN { <<degrees3(first)>> \o fx
           : first \in euler_filter_3d(ord, radians3(fx[1]), radians3(vs[1])) }
    ELSE {fx}

filter(vs, ord) ==
    UNION { fix_first(ord, vs, st.fixed)
            : st \in for_loop(ord, [prev |-> None, fixed |-> <<>>],
                              filter_vals(vs)) }

\* The channels of the key list vs whose curve is constant.
constant(vs) == { a \in 1..3 : \A k \in 1..Len(vs) : vs[k][a] = vs[1][a] }

\* set_knob(knob, values, frames, cleanup) on a knob kn.
set_knob(kn, vs, fr, cleanup) ==
    IF vs = <<>> \/ fr = <<>> THEN kn
    ELSE IF Len(vs) = 1 THEN [kn EXCEPT !.keys = <<vs[1]>>]
    ELSE IF Len(vs) # Len(fr) THEN kn
    ELSE [animated |-> TRUE, keys |-> vs, at |-> fr,
          cleared |-> IF cleanup THEN constant(vs) ELSE {}]

\* Knob.setAnimated() on a knob kn.
setAnimated(kn) == [kn EXCEPT !.animated = TRUE]

(***************************************************************************)
(* Idle values of the variables a specification does not use.              *)
(***************************************************************************)
no_knob == [animated |-> FALSE, keys |-> <<>>, at |-> <<>>, cleared |-> {}]

IdleFilter ==
    /\ values = <<>> /\ order = <<>> /\ vals = <<>> /\ prev = None
    /\ fixed = <<>> /\ frames = <<>> /\ knob = no_knob

IdlePure ==
    /\ previous = <<>> /\ current = <<>> /\ euler = <<>>
    /\ flips = 0 /\ result = None

IdleUnwind ==
    /\ angle_prev = 0
    /\ angle_cur = exact(0)
    /\ angle_in = exact(0)
    /\ angle_tied = FALSE

IdleBake ==
    /\ selected = <<>> /\ rot_order_arg = "current" /\ rot_order = "current"
    /\ node_idx = 0 /\ baked = <<>>
    /\ bake_args = [filter_rotations |-> TRUE, use_matrix |-> FALSE]

(***************************************************************************)
(* Spec: lines 434-442 of bake_world_transform for the rotate knob of one  *)
(* duplicate: dup["rotate"].setAnimated(), RotationFilter(rotate,          *)
(* rot_order).filter() and set_knob(dup["rotate"], rotate, frames).        *)
(***************************************************************************)
Init ==
    /\ \E n \in 0..MaxLen :
         /\ values \in [1..n -> Frames]
         /\ frames = [f \in 1..n |-> f]
    /\ \E o \in rot_orders : order = lower(chars[o])
    /\ vals = <<>> /\ prev = None /\ fixed = <<>> /\ knob = no_knob
    /\ pc = "animate"
    /\ IdlePure /\ IdleUnwind /\ IdleBake

SetAnimated ==
    /\ pc = "animate"
    /\ knob' = setAnimated(knob)
    /\ pc' = "filter"
    /\ UNCHANGED <<values, order, vals, prev, fixed, frames,
                   pureVars, unwindVars, bakeVars>>

FilterStart ==
    /\ pc = "filter"
    /\ prev' = None
    /\ fixed' = <<>>
    /\ vals' = filter_vals(values)
    /\ pc' = "loop"
    /\ UNCHANGED <<values, order, frames, knob, pureVars, unwindVars, bakeVars>>

FilterLoop ==
    /\ pc = "loop"
    /\ vals # <<>>
    /\ \E st \in loop_body(order, [prev |-> prev, fixed |-> fixed], Head(vals)) :
           /\ prev' = st.prev
           /\ fixed' = st.fixed
    /\ vals' = Tail(vals)
    /\ UNCHANGED <<values, order, frames, knob, pc, pureVars, unwindVars, bakeVars>>

FilterReturn ==
    /\ pc = "loop"
    /\ vals = <<>>
    /\ fixed' \in fix_first(order, values, fixed)
    /\ pc' = "returned"
    /\ UNCHANGED <<values, order, vals, prev, frames, knob,
                   pureVars, unwindVars, bakeVars>>

SetKnob ==
    /\ pc = "returned"
    /\ knob' = set_knob(knob, fixed, frames, FALSE)
    /\ pc' = "done"
    /\ UNCHANGED <<values, order, vals, prev, fixed, frames,
                   pureVars, unwindVars, bakeVars>>

Next == SetAnimated \/ FilterStart \/ FilterLoop \/ FilterReturn \/ SetKnob

Spec == Init /\ [][Next]_vars

(***************************************************************************)
(* SpecUnwind: one call of euler_filter_1d; the loop test and the loop     *)
(* body are a step each.  The interpreter keeps running the loop, hence    *)
(* the weak fairness.  The body leaves a double that absorbs 2*math.pi as  *)
(* it is, so the loop test passes again and the call goes round the loop   *)
(* for ever.  So it can at a half turn from a previous near 64 radians or  *)
(* beyond, where the loop test can pass on both sides of previous.         *)
(***************************************************************************)
Angles1d == { n * (PI \div 2) : n \in -MaxAngle..MaxAngle }

Currents1d == { exact(a) : a \in Angles1d } \cup { huge(-1), huge(1) }

\* Calls with previous beyond 64 radians and current an odd number of half
\* turns away, <<previous, current>>.
CoarseCalls ==
    { <<radians(-3852), exact(radians(-4032))>>,
      <<radians(3852), exact(radians(4032))>>,
      <<radians(-3852), exact(radians(-4392))>> }

InitUnwind ==
    /\ \E call \in (Angles1d \X Currents1d) \cup CoarseCalls :
           /\ angle_prev = call[1]
           /\ angle_in = call[2]
    /\ angle_cur = angle_in
    /\ angle_tied = FALSE
    /\ pc = "while"
    /\ IdleFilter /\ IdlePure /\ IdleBake

UnwindTest ==
    /\ pc = "while"
    /\ TRUE \in float_more(angle_prev, angle_cur, angle_tied)
    /\ angle_tied' = (angle_tied \/ float_tied(angle_prev, angle_cur))
    /\ pc' = "body"
    /\ UNCHANGED <<angle_prev, angle_cur, angle_in,
                   filterVars, pureVars, bakeVars>>

UnwindBody ==
    /\ pc = "body"
    /\ angle_cur' = float_step(angle_prev, angle_cur)
    /\ pc' = "while"
    /\ UNCHANGED <<angle_prev, angle_in, angle_tied,
                   filterVars, pureVars, bakeVars>>

UnwindReturn ==
    /\ pc = "while"
    /\ FALSE \in float_more(angle_prev, angle_cur, angle_tied)
    /\ pc' = "returned"
    /\ UNCHANGED <<unwindVars, filterVars, pureVars, bakeVars>>

NextUnwind == UnwindTest \/ UnwindBody \/ UnwindReturn

SpecUnwind == InitUnwind /\ [][NextUnwind]_vars /\ WF_vars(NextUnwind)

(***************************************************************************)
(* SpecPure: flip_euler and euler_filter_3d applied to drawn arguments.    *)
(***************************************************************************)
PrevAngles == { n * PI : n \in 0..MaxPrevGrid }
CurAngles  == { n * PI : n \in -MaxGrid..MaxGrid }

InitPure ==
    /\ previous \in [1..3 -> PrevAngles]
    /\ current \in [1..3 -> CurAngles]
    /\ \E o \in rot_orders : order = lower(chars[o])
    /\ euler = current
    /\ flips = 0
    /\ result = None
    /\ pc = "pure"
    /\ values = <<>> /\ vals = <<>> /\ prev = None /\ fixed = <<>>
    /\ frames = <<>> /\ knob = no_knob
    /\ IdleUnwind /\ IdleBake

FlipEuler ==
    /\ pc = "pure"
    /\ flips < MaxFlips
    /\ euler' = flip_euler(order, euler)
    /\ flips' = flips + 1
    /\ UNCHANGED <<previous, current, result, pc, filterVars, unwindVars, bakeVars>>

Resolve ==
    /\ pc = "pure"
    /\ result = None
    /\ result' \in euler_filter_3d(order, previous, current)
    /\ UNCHANGED <<previous, current, euler, flips, pc,
                   filterVars, unwindVars, bakeVars>>

NextPure == FlipEuler \/ Resolve

SpecPure == InitPure /\ [][NextPure]_vars

(***************************************************************************)
(* SpecBake: the loop of bake_world_transform over the selected nodes.     *)
(* A node is [is3d, rot_order]: whether it has a rot_order knob and the    *)
(* knob's current value.                                                   *)
(***************************************************************************)
Nodes ==
    { [is3d |-> TRUE, rot_order |-> o] : o \in rot_orders }
    \cup { [is3d |-> FALSE, rot_order |-> "none"] }

is_3d_node(node) == node.is3d

\* The rotation order decompose_matrix extracts the angles with.
decompose_matrix(ro) == IF ro \in rot_orders THEN ro ELSE "ZXY"

\* Lines 406-443 for one 3d node; ro is rot_order on entry.
bake_node(node, ro, args) ==
    LET ro2 == IF ro \notin rot_orders THEN node.rot_order ELSE ro
    IN  [rot_order |-> ro2,
         entry |-> [node      |-> node,
                    decompose |-> decompose_matrix(ro2),
                    dup       |-> ro2,
                    filter    |-> IF ~ args.use_matrix /\ args.filter_rotations
                                  THEN lower(chars[ro2]) ELSE None]]

InitBake ==
    /\ \E n \in 0..MaxNodes : selected \in [1..n -> Nodes]
    /\ rot_order_arg \in rot_orders \cup {"current", "bogus"}
    /\ rot_order = rot_order_arg
    /\ bake_args \in [filter_rotations : BOOLEAN, use_matrix : BOOLEAN]
    /\ node_idx = 0
    /\ baked = <<>>
    /\ pc = "bake"
    /\ IdleFilter /\ IdlePure /\ IdleUnwind

BakeSkip ==
    /\ pc = "bake"
    /\ node_idx < Len(selected)
    /\ ~ is_3d_node(selected[node_idx + 1])
    /\ node_idx' = node_idx + 1
    /\ UNCHANGED <<selected, rot_order_arg, rot_order, bake_args, baked, pc,
                   filterVars, pureVars, unwindVars>>

BakeNode ==
    /\ pc = "bake"
    /\ node_idx < Len(selected)
    /\ is_3d_node(selected[node_idx + 1])
    /\ LET b == bake_node(selected[node_idx + 1], rot_order, bake_args)
       IN  /\ rot_order' = b.rot_order
           /\ baked' = Append(baked, b.entry)
    /\ node_idx' = node_idx + 1
    /\ UNCHANGED <<selected, rot_order_arg, bake_args, pc,
                   filterVars, pureVars, unwindVars>>

BakeReturn ==
    /\ pc = "bake"
    /\ node_idx = Len(selected)
    /\ pc' = "done"
    /\ UNCHANGED <<bakeVars, filterVars, pureVars, unwindVars>>

NextBake == BakeSkip \/ BakeNode \/ BakeReturn

SpecBake == InitBake /\ [][NextBake]_vars

(***************************************************************************)
(* Properties.                                                             *)
(***************************************************************************)
Congruent(a, b, turn) == (a - b) % turn = 0

Congruent3(s, t, turn) == \A a \in 1..3 : Congruent(s[a], t[a], turn)

\* flip_euler on a triple given in degrees.
flip_degrees(ord, t) == degrees3(flip_euler(ord, radians3(t)))

\* euler_filter_3d on triples given in degrees: the triples it can return.
resolve_degrees(ord, p, c) ==
    { degrees3(r) : r \in euler_filter_3d(ord, radians3(p), radians3(c)) }

\* Largest per-axis difference between two triples.
WithinHalfTurn(s, t) == \A a \in 1..3 : Abs(s[a] - t[a]) <= 180

\* C1: filter() returns a list as long as self.values, for every input
\* length, so that set_knob never sees values and frames of different length.
C1_LengthPreserved ==
    /\ pc \in {"returned", "done"} => Len(fixed) = Len(values)
    /\ pc = "done" => /\ Len(knob.keys) = Len(values)
                      /\ Len(values) > 1 => knob.at = frames

C1_Witness ==
    /\ pc = "done"
    /\ Len(values) > 2
    /\ Len(fixed) = Len(values)
    /\ knob.animated

\* C2: every triple filter() emits is congruent, axis by axis modulo 360
\* degrees, to the input triple of the same index or to its flip.
C2_SameOrientation ==
    pc = "returned" =>
        \A i \in 1..Len(values) :
            /\ i <= Len(fixed)
            /\ \/ Congruent3(fixed[i], values[i], 360)
               \/ Congruent3(fixed[i], flip_degrees(order, values[i]), 360)

C2_Witness ==
    /\ pc = "returned"
    /\ \E i \in 1..Len(values) :
          /\ ~ Congruent3(fixed[i], values[i], 360)
          /\ Congruent3(fixed[i], flip_degrees(order, values[i]), 360)
    /\ \E i \in 1..Len(values) :
          /\ fixed[i] # values[i]
          /\ Congruent3(fixed[i], values[i], 360)

\* C3: adjacent output frames of filter(), the pair (0, 1) included, differ
\* by at most 180 degrees on each axis.
C3_AdjacentWithinHalfTurn ==
    pc = "returned" /\ Len(values) >= 2 =>
        \A i \in 1..(Len(fixed) - 1) : WithinHalfTurn(fixed[i], fixed[i + 1])

C3_Witness ==
    /\ pc = "returned"
    /\ Len(values) > 2
    /\ ~ WithinHalfTurn(values[1], values[2])
    /\ ~ WithinHalfTurn(values[2], values[3])
    /\ \A i \in 1..(Len(fixed) - 1) : WithinHalfTurn(fixed[i], fixed[i + 1])

\* C4 as stated: for every finite current, euler_filter_1d terminates and
\* returns a value within pi of previous that differs from the current passed
\* in by a whole number of full turns.
C4_UnwindMinimal ==
    <>( /\ pc = "returned"
        /\ ~ angle_cur.absorbs
        /\ ~ angle_in.absorbs
        /\ Abs(angle_cur.rad - angle_prev) <= PI
        /\ Congruent(angle_cur.rad, angle_in.rad, 2 * PI) )

\* C5 as stated: flip_euler applied twice gives back the same angle values.
C5_FlipTwiceIdentity == flips = 2 => euler = current

\* C5 amended: flip_euler applied twice gives back the value on the middle
\* axis of the order and the value plus one full turn on the first and the
\* last axis, hence the same angles modulo a full turn.
C5_FlipTwiceFullTurn ==
    flips = 2 =>
        LET axes == split_axis_order(order)
        IN  /\ euler[axes[1]] = current[axes[1]] + 2 * PI
            /\ euler[axes[2]] = current[axes[2]]
            /\ euler[axes[3]] = current[axes[3]] + 2 * PI
            /\ Congruent3(euler, current, 2 * PI)

C5_Witness ==
    /\ flips = 2
    /\ euler # current
    /\ \E a \in 1..3 : current[a] # 0

\* The frame list with frame k replaced by its flip plus m[a] full turns on
\* axis a.
inject_flip(vs, ord, k, m) ==
    [vs EXCEPT ![k] = [a \in 1..3 |-> flip_degrees(ord, vs[k])[a] + 360 * m[a]]]

TurnChoices == [1..3 -> (-MaxTurns)..MaxTurns]

Neighbours(k, n) == {k - 1, k + 1} \cap 1..n

\* The frames of the lists in which a flip is injected.
FlipFrames == { <<0, 0, 170>>, <<0, 0, -170>>, <<180, 180, -10>> }

\* filter() has returned on a list of 3..FlipLen frames of FlipFrames.
FlipCase ==
    /\ pc = "returned"
    /\ Len(values) >= 3 /\ Len(values) <= FlipLen
    /\ \A i \in 1..Len(values) : values[i] \in FlipFrames

\* C6: with frame k replaced by its flip plus full turns, frame k of the
\* output is no farther from its adjacent output frames than in the output
\* of the unmodified list.
C6_FlipInvariant ==
    FlipCase =>
        \A k \in 1..Len(values) : \A m \in TurnChoices :
            \A out2 \in filter(inject_flip(values, order, k, m), order) :
                \A nb \in Neighbours(k, Len(values)) :
                    distance_squared(out2[k], out2[nb])
                        <= distance_squared(fixed[k], fixed[nb])

C6_Witness ==
    /\ FlipCase
    /\ Len(values) = 3
    /\ \E k \in 1..3 : \E m \in TurnChoices :
          \E out2 \in filter(inject_flip(values, order, k, m), order) :
              /\ out2[k] # fixed[k]
              /\ ~ Congruent3(out2[k], fixed[k], 360)
              /\ \E nb \in Neighbours(k, 3) : fixed[k] # fixed[nb]

Scenario == << <<0, 0, 170>>, <<0, 0, -170>>, <<0, 0, 170>> >>

ScenarioReturned ==
    pc = "returned" /\ values = Scenario /\ order = <<"z", "x", "y">>

\* C7 as stated: the scenario resolves frame1 to [0,0,190] and keeps the z
\* of frame2 in 190..370, with no adjacent jump of 340 degrees.
C7_ScenarioAsStated ==
    ScenarioReturned =>
        /\ fixed[2] = <<0, 0, 190>>
        /\ fixed[3][3] >= 190 /\ fixed[3][3] <= 370
        /\ \A i \in 1..2 : Abs(fixed[i][3] - fixed[i + 1][3]) < 340

\* C7 amended: the scenario keeps frame1 at [0,0,-170] and resolves frame0
\* and frame2 to [0,0,-190], with no adjacent jump of 340 degrees.
C7_ScenarioSecondFrameKept ==
    ScenarioReturned =>
        /\ fixed = << <<0, 0, -190>>, <<0, 0, -170>>, <<0, 0, -190>> >>
        /\ \A i \in 1..2 : Abs(fixed[i][3] - fixed[i + 1][3]) < 340

C7_Witness == ScenarioReturned /\ Len(fixed) = 3 /\ fixed[1] # values[1]

\* C8: the two-phase sequencing rule of filter(); output[k] is a triple
\* that resolving input[k] against output[k-1] can return.
C8_Sequencing ==
    pc = "returned" =>
        LET n == Len(values)
        IN  /\ Len(fixed) = n
            /\ n > 2 =>
                 /\ fixed[2] = values[2]
                 /\ \A k \in 3..n :
                        fixed[k] \in resolve_degrees(order, fixed[k - 1], values[k])
                 /\ fixed[1] \in resolve_degrees(order, fixed[2], values[1])
            /\ n \in {1, 2} => fixed[1] = values[1]
            /\ n = 2 => fixed[2] \in resolve_degrees(order, values[1], values[2])

C8_Witness ==
    /\ pc = "returned"
    /\ Len(values) >= 4
    /\ fixed[3] # values[3]
    /\ fixed[4] \notin resolve_degrees(order, values[3], values[4])
    /\ fixed[1] # values[1]

\* unwind_1d, unwind_3d and resolve as the specification words them, in
\* exact arithmetic: the flip of the raw current, candidate_a when equal.
RECURSIVE unwind_1d(_, _)
unwind_1d(p, c) ==
    IF Abs(p - c) > PI
    THEN unwind_1d(p, IF p < c THEN c - 2 * PI ELSE c + 2 * PI)
    ELSE c

unwind_3d_spec(p, c) == [a \in 1..3 |-> unwind_1d(p[a], c[a])]

resolve(ord, p, c) ==
    LET candidate_a == unwind_3d_spec(p, c)
        candidate_b == unwind_3d_spec(p, flip_euler(ord, c))
    IN  IF distance_squared(candidate_b, p) < distance_squared(candidate_a, p)
        THEN candidate_b
        ELSE candidate_a

\* C9 as stated: euler_filter_3d returns exactly the triple of resolve.
C9_EqualsResolve ==
    result # None => result = resolve(order, previous, current)

\* C9 amended: euler_filter_3d returns a triple within pi of previous on
\* every axis that is congruent, axis by axis modulo a full turn, to
\* candidate_a or to candidate_b, and whose squared distance to previous is
\* the smaller of the two candidates' distances; it is the triple of resolve
\* when the two distances differ and no axis of that triple lies exactly pi
\* from previous.
C9_ClosestCandidate ==
    result # None =>
        LET candidate_a == unwind_3d_spec(previous, current)
            candidate_b == unwind_3d_spec(previous, flip_euler(order, current))
            dist_a == distance_squared(candidate_a, previous)
            dist_b == distance_squared(candidate_b, previous)
            spec == resolve(order, previous, current)
        IN  /\ \A a \in 1..3 : Abs(result[a] - previous[a]) <= PI
            /\ \/ Congruent3(result, candidate_a, 2 * PI)
               \/ Congruent3(result, candidate_b, 2 * PI)
            /\ distance_squared(result, previous)
                   = IF dist_b < dist_a THEN dist_b ELSE dist_a
            /\ dist_a # dist_b => Congruent3(result, spec, 2 * PI)
            /\ (/\ dist_a # dist_b
                /\ \A a \in 1..3 : Abs(spec[a] - previous[a]) # PI)
                   => result = spec

C9_Witness ==
    /\ result # None
    /\ result # unwind_3d_spec(previous, current)
    /\ result # resolve(order, previous, current)
    /\ distance_squared(unwind_3d_spec(previous, current), previous)
         # distance_squared(result, previous)

\* C10: with rot_order left unspecified, every 3d node is decomposed, baked
\* and filtered with that node's own current rotation order.
C10_OwnRotationOrder ==
    rot_order_arg \notin rot_orders =>
        \A j \in 1..Len(baked) :
            /\ baked[j].decompose = baked[j].node.rot_order
            /\ baked[j].dup = baked[j].node.rot_order
            /\ baked[j].filter \in {None, lower(chars[baked[j].node.rot_order])}

====
